---------------------------- MODULE Spec2Model ----------------------------
(***************************************************************************)
(* Model of the two utility modules of the repository:                    *)
(*   limpieza_texto.py  the input guard (decorador_validar_texto) and the *)
(*                      two text cleaners it wraps;                       *)
(*   cnx_api.py         request_api, the helper in front of `requests`.   *)
(* Strings are sequences of code points, so that the regular expressions  *)
(* the code builds are parsed and run the way `re` parses and runs them.  *)
(***************************************************************************)
EXTENDS Integers, Sequences, FiniteSets, TLC

VARIABLES
    pc,          \* position of the guarded call: "inicio", "fin"
    func,        \* the guarded function being called
    texto,       \* first argument handed to the wrapper (a tagged value)
    args,        \* remaining arguments handed to the wrapper
    resultado,   \* outcome of the call: returned value or raised error
    invocado,    \* arguments the wrapped function was invoked with, in order
    llamadas,    \* invocation counter of each wrapped function
    http_pc,     \* position of request_api: "inicio", "despachado", "retornado", "lanzado"
    method,      \* the caller's method argument
    headers,     \* the caller's headers argument: None or a reference into heap
    heap,        \* the mappings alive during the call, by reference
    bearer_token,\* the caller's bearer_token argument
    session,     \* the caller's session argument
    despachos,   \* requests handed to the transport collaborator, in order
    transporte,  \* what the transport collaborator answered: a response or an error
    http_resultado \* outcome of request_api

text_vars == <<pc, func, texto, args, resultado, invocado, llamadas>>
http_vars == <<http_pc, method, headers, heap, bearer_token, session, despachos, transporte, http_resultado>>
vars == <<pc, func, texto, args, resultado, invocado, llamadas,
          http_pc, method, headers, heap, bearer_token, session, despachos, transporte, http_resultado>>

-----------------------------------------------------------------------------
(* Bounds of the model                                                     *)

\* longest text handed to limpiar_espacios
MaxEspacios == 6
\* longest text handed to limpiar_caracteres
MaxTexto == 3
\* longest allow-list handed to limpiar_caracteres
MaxPermitir == 2
\* longest text and longest argument list handed to the stub
MaxStub == 2

\* code points: a 5 space ] ^ - \ _ e-acute
TextoChars == {97, 53, 32, 93, 94, 45, 92, 95, 233}
\* code points an allow-list is drawn from: ] ^ - \ _
PermitirChars == {93, 94, 45, 92, 95}
\* code points of the texts of limpiar_espacios: a space tab
EspaciosChars == {97, 32, 9}

RECURSIVE SeqsUpTo(_, _)
SeqsUpTo(S, n) ==
    IF n = 0 THEN {<< >>}
    ELSE LET shorter == SeqsUpTo(S, n - 1)
         IN  shorter \cup {Append(s, c) : s \in {t \in shorter : Len(t) = n - 1}, c \in S}

-----------------------------------------------------------------------------
(* Python values                                                           *)

None == [type |-> "NoneType"]
Str(s) == [type |-> "str", val |-> s]
\* present values that are not strings: an int, a bool, a list
NoStr == {[type |-> "int", val |-> <<1>>],
          [type |-> "bool", val |-> <<1>>],
          [type |-> "list", val |-> <<97>>]}

Returned(v) == [kind |-> "return", val |-> v]
\* an exception of class exc; arg is what its message names
Raised(exc, arg) == [kind |-> "raise", val |-> [exc |-> exc, arg |-> arg]]
NoResult == [kind |-> "none"]

-----------------------------------------------------------------------------
(* str and re primitives                                                   *)

\* Py_UNICODE_ISSPACE on the Latin-1 range: what \s and str.strip() use
IsSpace(c) == c \in {9, 10, 11, 12, 13, 28, 29, 30, 31, 32, 133, 160}

\* re._special_chars_map: the characters re.escape puts a backslash before
SpecialChars == {40, 41, 91, 93, 123, 125, 63, 42, 43, 45, 124, 94, 36, 92,
                 46, 38, 126, 35, 32, 9, 10, 13, 11, 12}

RECURSIVE Flatten(_)
Flatten(ss) == IF ss = << >> THEN << >> ELSE Head(ss) \o Flatten(Tail(ss))

\* "".join(permitir_caracter)
Join(permitir) == Flatten(permitir)

\* a plausible slip: the allow-list interpolated into the class unescaped
re_escape_omitted(s) == s

\* re.escape(s)
re_escape(s) ==
    Flatten([i \in 1..Len(s) |->
                IF s[i] \in SpecialChars THEN <<92, s[i]>> ELSE <<s[i]>>])


-----------------------------------------------------------------------------
(* The character class the filter compiles, as sre_parse reads it          *)

Lit(c) == [t |-> "lit", lo |-> c, hi |-> c]
Range(lo, hi) == [t |-> "range", lo |-> lo, hi |-> hi]
Category(c) == [t |-> "category", lo |-> c, hi |-> c]
BadEscape == [t |-> "bad", lo |-> 0, hi |-> 0]

IsAsciiAlnum(c) == (c >= 48 /\ c <= 57) \/ (c >= 65 /\ c <= 90) \/ (c >= 97 /\ c <= 122)

\* sre_parse._class_escape for the token backslash + c: \s and \d are
\* categories, an escaped non-alphanumeric is that literal; the other letter
\* and digit escapes never occur in the patterns modelled here
ClassEscape(c) ==
    IF c \in {115, 100} THEN Category(c)
    ELSE IF IsAsciiAlnum(c) THEN BadEscape
    ELSE Lit(c)

SetError == [err |-> TRUE, items |-> << >>, next |-> 0]

\* the loop of sre_parse._parse over the body of a [...] set, from position i
RECURSIVE ParseSet(_, _, _)
ParseSet(p, i, items) ==
    IF i > Len(p) THEN SetError                       \* unterminated character set
    ELSE IF p[i] = 93 /\ items # << >>
         THEN [err |-> FALSE, items |-> items, next |-> i + 1]
    ELSE IF p[i] = 92 /\ i = Len(p) THEN SetError     \* bad escape (end of pattern)
    ELSE
      LET code1 == IF p[i] = 92 THEN ClassEscape(p[i + 1]) ELSE Lit(p[i])
          j == IF p[i] = 92 THEN i + 2 ELSE i + 1
      IN  IF code1.t = "bad" THEN SetError
          ELSE IF j <= Len(p) /\ p[j] = 45
          THEN \* a '-' follows: a range, or a literal '-' right before ']'
            LET k == j + 1 IN
            IF k > Len(p) THEN SetError
            ELSE IF p[k] = 93
                 THEN [err |-> FALSE, items |-> items \o <<code1, Lit(45)>>, next |-> k + 1]
            ELSE IF p[k] = 92 /\ k = Len(p) THEN SetError
            ELSE
              LET code2 == IF p[k] = 92 THEN ClassEscape(p[k + 1]) ELSE Lit(p[k])
                  m == IF p[k] = 92 THEN k + 2 ELSE k + 1
              IN  IF code1.t # "lit" \/ code2.t # "lit" THEN SetError   \* bad character range
                  ELSE IF code2.lo < code1.lo THEN SetError
                  ELSE ParseSet(p, m, Append(items, Range(code1.lo, code2.lo)))
          ELSE ParseSet(p, j, Append(items, code1))

\* a pattern that opens with a set: the set, whether it is negated, and the
\* rest of the pattern after the closing ']'
ParsePattern(p) ==
    LET negate == Len(p) >= 2 /\ p[2] = 94
        set == ParseSet(p, IF negate THEN 3 ELSE 2, << >>)
    IN  [err |-> set.err,
         negate |-> negate,
         items |-> set.items,
         rest |-> IF set.err THEN << >> ELSE SubSeq(p, set.next, Len(p))]

ItemMatches(item, c) ==
    IF item.t = "category"
    THEN IF item.lo = 115 THEN IsSpace(c) ELSE (c >= 48 /\ c <= 57)
    ELSE item.lo <= c /\ c <= item.hi

\* does the compiled set match the character c
SetMatches(cp, c) ==
    LET in == \E n \in 1..Len(cp.items) : ItemMatches(cp.items[n], c)
    IN  IF cp.negate THEN ~in ELSE in

\* does the pattern (set, then literal rest) match texto at position i
MatchesAt(cp, s, i) ==
    /\ i + Len(cp.rest) <= Len(s)
    /\ SetMatches(cp, s[i])
    /\ \A n \in 1..Len(cp.rest) : s[i + n] = cp.rest[n]

\* re.sub(patron, "", texto): left to right, every match removed
RECURSIVE SubEmpty(_, _, _)
SubEmpty(cp, s, i) ==
    IF i > Len(s) THEN << >>
    ELSE IF MatchesAt(cp, s, i) THEN SubEmpty(cp, s, i + 1 + Len(cp.rest))
    ELSE <<s[i]>> \o SubEmpty(cp, s, i + 1)

re_sub_empty(patron, s) ==
    LET cp == ParsePattern(patron)
    IN  IF cp.err \/ (\E n \in 1..Len(cp.rest) : cp.rest[n] \in SpecialChars \ {93, 45, 32})
        THEN Raised("re.error", "patron")
        ELSE Returned(Str(SubEmpty(cp, s, 1)))

\* rf"[^a-zA-Z0-9\s{caracteres_permitidos}]"
Patron(caracteres_permitidos) ==
    <<91, 94, 97, 45, 122, 65, 45, 90, 48, 45, 57, 92, 115>>
        \o caracteres_permitidos \o <<93>>

\* body of limpiar_caracteres
limpiar_caracteres_func(s, permitir_caracter) ==
    LET caracteres_permitidos == re_escape(Join(permitir_caracter))
        patron == Patron(caracteres_permitidos)
    IN  re_sub_empty(patron, s)

-----------------------------------------------------------------------------
(* The whitespace normaliser                                               *)

\* length of the run of whitespace that starts at position i
RECURSIVE RunLen(_, _)
RunLen(s, i) == IF i > Len(s) \/ ~IsSpace(s[i]) THEN 0 ELSE 1 + RunLen(s, i + 1)

\* a plausible slip: \s{2} in place of \s{2,}
MatchPair(s, i) == IF RunLen(s, i) >= 2 THEN 2 ELSE 0

\* PATRON_MULTIESPACIO, \s{2,}: length of the greedy match at i, 0 if none
MatchMultiespacio(s, i) == IF RunLen(s, i) >= 2 THEN RunLen(s, i) ELSE 0

\* PATRON_MULTIESPACIO.sub(" ", texto)
RECURSIVE SubMultiespacio(_, _)
SubMultiespacio(s, i) ==
    IF i > Len(s) THEN << >>
    ELSE IF MatchMultiespacio(s, i) > 0
         THEN <<32>> \o SubMultiespacio(s, i + MatchMultiespacio(s, i))
    ELSE <<s[i]>> \o SubMultiespacio(s, i + 1)

RECURSIVE LStrip(_)
LStrip(s) == IF s # << >> /\ IsSpace(Head(s)) THEN LStrip(Tail(s)) ELSE s

RECURSIVE RStrip(_)
RStrip(s) ==
    IF s # << >> /\ IsSpace(s[Len(s)]) THEN RStrip(SubSeq(s, 1, Len(s) - 1)) ELSE s

\* a plausible slip: the trim left out
StripOmitted(s) == s

\* str.strip()
Strip(s) == RStrip(LStrip(s))

\* body of limpiar_espacios
limpiar_espacios_func(s) == Returned(Str(Strip(SubMultiespacio(s, 1))))

-----------------------------------------------------------------------------
(* The input guard and the functions it wraps                              *)

Funcs == {"limpiar_espacios", "limpiar_caracteres", "stub"}

\* a counting stub standing for any other function the guard may wrap: its
\* result depends on the first and on the remaining arguments
stub_func(s, a) == Returned(Str(Flatten(a) \o s))

\* func(texto, *args, **kwargs) for the function named f
ApplyFunc(f, v, a) ==
    CASE f = "limpiar_espacios" -> limpiar_espacios_func(v.val)
      [] f = "limpiar_caracteres" -> limpiar_caracteres_func(v.val, a)
      [] f = "stub" -> stub_func(v.val, a)

Invocation(f, v, a) == [func |-> f, texto |-> v, args |-> a]

\* a plausible slip: the type test made before the test for None
wrapper_type_first(f, v, a) ==
    IF v.type # "str" THEN [res |-> Raised("TypeError", v.type), inv |-> << >>]
    ELSE [res |-> ApplyFunc(f, v, a), inv |-> <<Invocation(f, v, a)>>]

\* a plausible slip: the type test left out
wrapper_no_type_test(f, v, a) ==
    IF v = None THEN [res |-> Returned(None), inv |-> << >>]
    ELSE [res |-> ApplyFunc(f, v, a), inv |-> <<Invocation(f, v, a)>>]

\* decorador_validar_texto(func).wrapper(texto, *args): the outcome of the
\* call and the invocations of func it made
wrapper(f, v, a) ==
    IF v = None THEN [res |-> Returned(None), inv |-> << >>]
    ELSE IF v.type # "str"
         THEN [res |-> Raised("TypeError", v.type), inv |-> << >>]
    ELSE [res |-> ApplyFunc(f, v, a), inv |-> <<Invocation(f, v, a)>>]

\* one call of the guarded function f with the arguments drawn in Init
GuardedCall(f) ==
    /\ pc = "inicio"
    /\ func = f
    /\ LET w == wrapper(f, texto, args)
       IN  /\ resultado' = w.res
           /\ invocado' = w.inv
           /\ llamadas' = [llamadas EXCEPT ![f] = @ + Len(w.inv)]
    /\ pc' = "fin"
    /\ UNCHANGED <<func, texto, args>>
    /\ UNCHANGED http_vars

Call_limpiar_espacios == GuardedCall("limpiar_espacios")
Call_limpiar_caracteres == GuardedCall("limpiar_caracteres")
Call_stub == GuardedCall("stub")

\* the first arguments a guarded function is called with: absent, present
\* but not a string, or a string over the given characters
Textos(chars, n) == {None} \cup NoStr \cup {Str(s) : s \in SeqsUpTo(chars, n)}

\* allow-lists: sequences of one-character strings, duplicates included
Permitidos == SeqsUpTo({<<c>> : c \in PermitirChars}, MaxPermitir)

HttpIdle ==
    /\ http_pc = "sin_llamada"
    /\ method = << >>
    /\ headers = None
    /\ heap = << >>
    /\ bearer_token = None
    /\ session = None
    /\ despachos = << >>
    /\ transporte = NoResult
    /\ http_resultado = NoResult

InitTexto ==
    /\ pc = "inicio"
    /\ \/ /\ func = "limpiar_espacios"
          /\ texto \in Textos(EspaciosChars, MaxEspacios)
          /\ args = << >>
       \/ /\ func = "limpiar_caracteres"
          /\ texto \in Textos(TextoChars, MaxTexto)
          /\ args \in Permitidos
       \/ /\ func = "stub"
          /\ texto \in Textos({97, 32}, MaxStub)
          /\ args \in SeqsUpTo({<<95>>, <<53>>}, MaxStub)
    /\ resultado = NoResult
    /\ invocado = << >>
    /\ llamadas = [f \in Funcs |-> 0]
    /\ HttpIdle

NextTexto ==
    \/ Call_limpiar_espacios
    \/ Call_limpiar_caracteres
    \/ Call_stub

SpecTexto == InitTexto /\ [][NextTexto]_vars

-----------------------------------------------------------------------------
(* request_api                                                             *)

\* "get", "GET", "Post"
Methods == {<<103, 101, 116>>, <<71, 69, 84>>, <<80, 111, 115, 116>>}

HeaderKeys == {"Authorization", "authorization", "Accept"}
\* "v" and "Bearer X"
HeaderValues == {<<118>>, <<66, 101, 97, 114, 101, 114, 32, 88>>}
\* the mappings a caller may pass as headers, the empty one included
HeaderMaps == UNION {[K -> HeaderValues] : K \in SUBSET HeaderKeys}
EmptyMap == << >>

\* a mapping object, by its reference in the heap
Dict(ref) == [type |-> "dict", ref |-> ref]
\* a requests.Session the caller owns
Session == [type |-> "Session"]

\* absent, "" and "X"
Tokens == {None, Str(<< >>), Str(<<88>>)}

\* statuses a transport collaborator answers with
StatusCodes == {100, 200, 204, 301, 304, 399, 400, 404, 499, 500, 503, 599}
Responses == [status_code : StatusCodes, body : {"a", "b"}]

\* the errors the transport collaborator raises: connect or resolution, timeout
TransportErrors == {"ConnectionError", "Timeout"}

\* str.upper() on ASCII text
Upper(m) == [i \in 1..Len(m) |-> IF m[i] >= 97 /\ m[i] <= 122 THEN m[i] - 32 ELSE m[i]]

\* truth value of an Optional[str]
Truthy(v) == v # None /\ v.val # << >>

\* a plausible slip: final_headers = headers or {}, no copy made
DictAlias(hp, h) ==
    IF h = None \/ hp[h.ref] = EmptyMap
    THEN [ref |-> "final", heap |-> ("final" :> EmptyMap) @@ hp]
    ELSE [ref |-> h.ref, heap |-> hp]

\* dict(headers or {}): a new mapping with the entries of the caller's
DictCopy(hp, h) ==
    [ref |-> "final",
     heap |-> ("final" :> (IF h = None THEN EmptyMap ELSE hp[h.ref])) @@ hp]

\* f"Bearer {bearer_token}"
Bearer(token) == <<66, 101, 97, 114, 101, 114, 32>> \o token

\* a plausible slip: the Authorization entry set whenever a token is given
InjectAlways(hp, ref, token) ==
    IF Truthy(token)
    THEN [hp EXCEPT ![ref] = ("Authorization" :> Bearer(token.val)) @@ @]
    ELSE hp

\* lines 77-78: the Authorization entry written into the mapping at ref
Inject(hp, ref, token) ==
    IF Truthy(token) /\ "Authorization" \notin DOMAIN hp[ref]
    THEN [hp EXCEPT ![ref] = ("Authorization" :> Bearer(token.val)) @@ @]
    ELSE hp

\* session.request if session is not None else requests.request
RequestFunc(ses) == IF ses # None THEN "session.request" ELSE "requests.request"

\* request_api up to the call of request_func (lines 71-91)
request_api_dispatch ==
    /\ http_pc = "inicio"
    /\ LET copy == DictCopy(heap, headers)
           final == Inject(copy.heap, copy.ref, bearer_token)
       IN  /\ heap' = final
           /\ despachos' = Append(despachos,
                  [via |-> RequestFunc(session),
                   method |-> Upper(method),
                   headers |-> final[copy.ref]])
    /\ http_pc' = "despachado"
    /\ UNCHANGED <<method, headers, bearer_token, session, transporte, http_resultado>>
    /\ UNCHANGED text_vars

\* a plausible slip: a failed dispatch tried once more before giving up
request_func_raises_retry(e) ==
    /\ http_pc = "despachado"
    /\ IF Len(despachos) < 2
       THEN /\ despachos' = Append(despachos, despachos[1])
            /\ UNCHANGED <<http_pc, transporte, http_resultado>>
       ELSE /\ transporte' = Raised(e, "transport")
            /\ http_resultado' = Raised(e, "transport")
            /\ http_pc' = "lanzado"
            /\ UNCHANGED despachos
    /\ UNCHANGED <<method, headers, heap, bearer_token, session>>
    /\ UNCHANGED text_vars

\* request_func raises: nothing catches it, the call ends with that error
request_func_raises(e) ==
    /\ http_pc = "despachado"
    /\ transporte' = Raised(e, "transport")
    /\ http_resultado' = Raised(e, "transport")
    /\ http_pc' = "lanzado"
    /\ UNCHANGED <<method, headers, heap, bearer_token, session, despachos>>
    /\ UNCHANGED text_vars

\* a plausible slip: the status never looked at
raise_for_status_omitted(response) == NoResult

\* a plausible slip: every status outside 2xx treated as an error
raise_for_status_non2xx(response) ==
    IF response.status_code < 200 \/ response.status_code >= 300
    THEN Raised("HTTPError", response.status_code)
    ELSE NoResult

\* response.raise_for_status(), as line 93 documents it: HTTPError when the
\* status code is >= 400
raise_for_status(response) ==
    IF response.status_code >= 400
    THEN Raised("HTTPError", response.status_code)
    ELSE NoResult

\* request_func returns a response: raise_for_status, then return (lines 84-96)
request_func_returns(response) ==
    /\ http_pc = "despachado"
    /\ transporte' = Returned(response)
    /\ LET status == raise_for_status(response)
       IN  IF status.kind = "raise"
           THEN /\ http_resultado' = status
                /\ http_pc' = "lanzado"
           ELSE /\ http_resultado' = Returned(response)
                /\ http_pc' = "retornado"
    /\ UNCHANGED <<method, headers, heap, bearer_token, session, despachos>>
    /\ UNCHANGED text_vars

TextoIdle ==
    /\ pc = "sin_llamada"
    /\ func = "stub"
    /\ texto = None
    /\ args = << >>
    /\ resultado = NoResult
    /\ invocado = << >>
    /\ llamadas = [f \in Funcs |-> 0]

InitHttp ==
    /\ http_pc = "inicio"
    /\ method \in Methods
    /\ \/ /\ headers = None
          /\ heap = << >>
       \/ /\ headers = Dict("caller")
          /\ \E h \in HeaderMaps : heap = ("caller" :> h)
    /\ bearer_token \in Tokens
    /\ session \in {None, Session}
    /\ despachos = << >>
    /\ transporte = NoResult
    /\ http_resultado = NoResult
    /\ TextoIdle

NextHttp ==
    \/ request_api_dispatch
    \/ \E e \in TransportErrors : request_func_raises(e)
    \/ \E response \in Responses : request_func_returns(response)

SpecHttp == InitHttp /\ [][NextHttp]_vars

-----------------------------------------------------------------------------
(* Properties of the text cleaners and of the guard (under SpecTexto)      *)

IsAsciiLetter(c) == (c >= 65 /\ c <= 90) \/ (c >= 97 /\ c <= 122)
IsAsciiDigit(c) == c >= 48 /\ c <= 57

\* the characters an allow-list names
AllowSet(permitir) == {permitir[i][1] : i \in 1..Len(permitir)}

\* the subsequence of s made of letters, digits, whitespace and allowed characters
RECURSIVE KeepAllowed(_, _)
KeepAllowed(s, allow) ==
    IF s = << >> THEN << >>
    ELSE (IF \/ IsAsciiLetter(Head(s))
             \/ IsAsciiDigit(Head(s))
             \/ IsSpace(Head(s))
             \/ Head(s) \in allow
          THEN <<Head(s)>> ELSE << >>) \o KeepAllowed(Tail(s), allow)

StringCall(f) == pc = "fin" /\ func = f /\ texto.type = "str"

\* C1: limpiar_caracteres returns exactly the subsequence of its text, in
\* order, made of ASCII letters, digits, whitespace and the characters of the
\* allow-list, each allowed character taken as a literal
C1_FilterIsAllowedSubsequence ==
    StringCall("limpiar_caracteres")
        => resultado = Returned(Str(KeepAllowed(texto.val, AllowSet(args))))

\* "]_-" filtered with ], ^ and - allowed: ] and - stay, _ goes
C1_Witness ==
    /\ StringCall("limpiar_caracteres")
    /\ texto.val = <<93, 95, 45>>
    /\ AllowSet(args) = {93, 45}
    /\ resultado = Returned(Str(<<93, 45>>))

\* position i of s lies in a run of two or more whitespace characters
InLongRun(s, i) ==
    /\ IsSpace(s[i])
    /\ \/ (i > 1 /\ IsSpace(s[i - 1]))
       \/ (i < Len(s) /\ IsSpace(s[i + 1]))

\* what position i contributes once every long run is one space
Contribution(s, i) ==
    IF ~InLongRun(s, i) THEN <<s[i]>>
    ELSE IF i = 1 \/ ~IsSpace(s[i - 1]) THEN <<32>>
    ELSE << >>

RunsCollapsed(s) == Flatten([i \in 1..Len(s) |-> Contribution(s, i)])

\* s without its leading and trailing whitespace
Trimmed(s) ==
    LET solid == {i \in 1..Len(s) : ~IsSpace(s[i])}
    IN  IF solid = {} THEN << >>
        ELSE SubSeq(s, CHOOSE i \in solid : \A j \in solid : i <= j,
                       CHOOSE i \in solid : \A j \in solid : i >= j)

\* C2: limpiar_espacios replaces every maximal run of two or more whitespace
\* characters by one space and then removes leading and trailing whitespace;
\* a lone whitespace character between two others is left as it is
C2_CollapseThenTrim ==
    StringCall("limpiar_espacios")
        => resultado = Returned(Str(Trimmed(RunsCollapsed(texto.val))))

\* " a\t  a " gives "a\t a": the lone tab stays, the run becomes one space
C2_Witness ==
    /\ StringCall("limpiar_espacios")
    /\ texto.val = <<32, 97, 9, 97, 32, 9>>
    /\ resultado = Returned(Str(<<97, 9, 97>>))

\* C3: limpiar_espacios is idempotent: applied to its own result it returns
\* that result
C3_Idempotent ==
    StringCall("limpiar_espacios")
        => /\ resultado.kind = "return"
           /\ wrapper("limpiar_espacios", resultado.val, << >>).res = resultado

\* a text the first application changes
C3_Witness ==
    /\ StringCall("limpiar_espacios")
    /\ texto.val = <<97, 32, 9, 32, 32, 97>>
    /\ resultado = Returned(Str(<<97, 32, 97>>))

\* C4: a guarded call whose first argument is None returns None whatever the
\* remaining arguments are, and the wrapped function is not invoked: its
\* invocation counter is unchanged
C4_NoneReturnsNoneWithoutInvoking ==
    [][(texto = None /\ pc = "inicio" /\ pc' = "fin")
          => /\ resultado' = Returned(None)
             /\ invocado' = << >>
             /\ llamadas' = llamadas]_vars

C4_Witness ==
    /\ pc = "fin"
    /\ func = "limpiar_caracteres"
    /\ texto = None
    /\ Len(args) = 2
    /\ resultado = Returned(None)
    /\ llamadas["limpiar_caracteres"] = 0

\* C5: a guarded call whose first argument is present but not a string
\* raises TypeError without invoking the wrapped function; the function is
\* invoked, once and with the same first and remaining arguments, only when
\* the first argument is a string, and the guard returns its result
C5_TypeErrorOrSingleInvocation ==
    pc = "fin" =>
        /\ (texto # None /\ texto.type # "str")
              => /\ resultado.kind = "raise"
                 /\ resultado.val.exc = "TypeError"
                 /\ invocado = << >>
                 /\ llamadas = [f \in Funcs |-> 0]
        /\ invocado # << >> => texto.type = "str"
        /\ texto.type = "str"
              => /\ invocado = <<Invocation(func, texto, args)>>
                 /\ llamadas = [f \in Funcs |-> IF f = func THEN 1 ELSE 0]
                 /\ resultado = ApplyFunc(func, texto, args)

\* an int handed to limpiar_caracteres together with an allow-list
C5_Witness ==
    /\ pc = "fin"
    /\ func = "limpiar_caracteres"
    /\ texto.type = "int"
    /\ args # << >>
    /\ resultado = Raised("TypeError", "int")
    /\ invocado = << >>

-----------------------------------------------------------------------------
(* Properties of request_api (under SpecHttp)                              *)

Dispatched == Len(despachos) >= 1
CallerMap == IF headers = None THEN EmptyMap ELSE heap[headers.ref]
WithAuthorization(m, token) == ("Authorization" :> Bearer(token)) @@ m

\* C6 as stated: the Authorization entry is added whenever a token is
\* provided (not None) and the caller has no "Authorization" key; otherwise
\* the dispatched headers are the caller's
C6_AsStated ==
    Dispatched =>
        despachos[1].headers =
            IF bearer_token # None /\ "Authorization" \notin DOMAIN CallerMap
            THEN WithAuthorization(CallerMap, bearer_token.val)
            ELSE CallerMap

\* C6, amended: the Authorization entry is added whenever a non-empty token
\* is provided and the caller has no "Authorization" key; otherwise (no
\* token, an empty token, or an existing key) the dispatched headers are the
\* caller's, an existing Authorization value never overwritten
C6_NonEmptyTokenInjected ==
    Dispatched =>
        despachos[1].headers =
            IF /\ bearer_token # None
               /\ bearer_token.val # << >>
               /\ "Authorization" \notin DOMAIN CallerMap
            THEN WithAuthorization(CallerMap, bearer_token.val)
            ELSE CallerMap

\* token "X", a caller with "authorization" but no "Authorization"
C6_Witness ==
    /\ Dispatched
    /\ bearer_token = Str(<<88>>)
    /\ DOMAIN CallerMap = {"authorization"}
    /\ DOMAIN despachos[1].headers = {"authorization", "Authorization"}
    /\ despachos[1].headers["Authorization"] = <<66, 101, 97, 114, 101, 114, 32, 88>>

\* C7: a response with status >= 400 ends the call with HTTPError and no
\* response returned; a response with status 200 is returned unchanged
C7_StatusRaisesOrReturns ==
    transporte.kind = "return" =>
        /\ transporte.val.status_code >= 400
              => /\ http_pc = "lanzado"
                 /\ http_resultado.kind = "raise"
                 /\ http_resultado.val.exc = "HTTPError"
        /\ transporte.val.status_code = 200
              => /\ http_pc = "retornado"
                 /\ http_resultado = Returned(transporte.val)

C7_Witness ==
    /\ transporte.kind = "return"
    /\ transporte.val.status_code = 500
    /\ http_pc = "lanzado"
    /\ http_resultado = Raised("HTTPError", 500)

Non2xx(status) == status < 200 \/ status > 299

\* C8 as stated: every response whose status is outside 200..299 makes the
\* call raise
C8_AsStated ==
    (transporte.kind = "return" /\ Non2xx(transporte.val.status_code))
        => http_resultado.kind = "raise"

\* C8, amended: a response whose status is outside 200..299 makes the call
\* raise exactly when the status is >= 400; 1xx and 3xx responses are
\* returned to the caller
C8_Non2xxRaisesFrom400 ==
    (transporte.kind = "return" /\ Non2xx(transporte.val.status_code))
        => IF transporte.val.status_code >= 400
           THEN http_resultado.kind = "raise" /\ http_pc = "lanzado"
           ELSE http_resultado = Returned(transporte.val) /\ http_pc = "retornado"

C8_Witness ==
    /\ transporte.kind = "return"
    /\ transporte.val.status_code = 301
    /\ http_pc = "retornado"
    /\ http_resultado = Returned(transporte.val)

\* m is s with its ASCII lower-case letters replaced by their capitals
IsUpperOf(m, s) ==
    /\ Len(m) = Len(s)
    /\ \A i \in 1..Len(s) :
          /\ ~(m[i] >= 97 /\ m[i] <= 122)
          /\ m[i] = s[i] \/ (s[i] >= 97 /\ s[i] <= 122 /\ m[i] = s[i] - 32)

\* C9: a call dispatches exactly once, through the session when one is given
\* and else through the default client, with the method upper-cased; a
\* transport error or a status >= 400 ends the call at once with that error,
\* and no second dispatch is ever made
C9_OneDispatchNoRetry ==
    /\ Len(despachos) <= 1
    /\ http_pc \in {"despachado", "retornado", "lanzado"}
          => /\ Len(despachos) = 1
             /\ despachos[1].via =
                    (IF session = None THEN "requests.request" ELSE "session.request")
             /\ IsUpperOf(despachos[1].method, method)
    /\ transporte.kind = "raise"
          => /\ http_pc = "lanzado"
             /\ http_resultado = transporte
    /\ (transporte.kind = "return" /\ transporte.val.status_code >= 400)
          => /\ http_pc = "lanzado"
             /\ http_resultado = Raised("HTTPError", transporte.val.status_code)

\* "get" through a session, ended by a timeout of the transport
C9_Witness ==
    /\ http_pc = "lanzado"
    /\ session = Session
    /\ method = <<103, 101, 116>>
    /\ Len(despachos) = 1
    /\ despachos[1].method = <<71, 69, 84>>
    /\ despachos[1].via = "session.request"
    /\ http_resultado = Raised("Timeout", "transport")

\* C10: no step of request_api changes the caller's headers mapping,
\* whether the call returns or raises and whether or not a token is injected
C10_CallerHeadersNeverMutated ==
    [][headers # None
          => /\ headers.ref \in DOMAIN heap'
             /\ heap'[headers.ref] = heap[headers.ref]]_vars

\* a token injected for a caller with headers, in a call that raised
C10_Witness ==
    /\ http_pc = "lanzado"
    /\ headers # None
    /\ DOMAIN heap[headers.ref] = {"Accept"}
    /\ DOMAIN heap["final"] = {"Accept", "Authorization"}
    /\ bearer_token = Str(<<88>>)

=============================================================================
